---------------------------- MODULE Spec2Model ----------------------------
(***************************************************************************)
(* State machine of the CVEvaluator component                              *)
(* (src/src/components/CVEvaluator.tsx): the React state of the component, *)
(* its event handlers, and the continuations of its two asynchronous       *)
(* handlers (evaluateCV, downloadReport) after each await.                 *)
(*                                                                         *)
(* Four specifications are given.                                          *)
(*   Spec        the component as rendered: a handler runs only when the   *)
(*               element it is wired to accepts the event (the disabled    *)
(*               attributes, the pointer-events-none class, the            *)
(*               conditional rendering of the report card).                *)
(*   FairSpec    Spec, every pending evaluation request being answered.    *)
(*   SpecDirect  the intake handlers and evaluateCV invoked directly, in   *)
(*               any order, without the rendering guards.                  *)
(*   SpecTeardown  Spec, with the component unmounted at any moment and    *)
(*               the suspended invocations going on after that.            *)
(***************************************************************************)
EXTENDS Integers, Sequences, FiniteSets, TLC

VARIABLES
    cvFile,            \* useState(null), line 21
    jobFile,           \* useState(null), line 22
    evaluationReport,  \* useState(null), line 23
    isEvaluating,      \* useState(false), line 24
    error,             \* useState<string | null>(null), line 25
    evaluateCalls,     \* invocations of evaluateCV suspended at an await
    downloadCalls,     \* invocations of downloadReport suspended at an await
    downloads,         \* a.download of every anchor clicked so far, in order
    last,              \* name of the handler or continuation that ran last
    mounted            \* the component is mounted (it has not been torn down)

vars == <<cvFile, jobFile, evaluationReport, isEvaluating, error,
          evaluateCalls, downloadCalls, downloads, last, mounted>>

----------------------------------------------------------------------------
(* Bounds of the model *)

\* evaluateCV invocations that may be suspended at the same time
MaxEvaluateCalls == 2

\* downloadReport invocations started in one behaviour
MaxDownloads == 1

----------------------------------------------------------------------------
(* JavaScript values *)

Null == [kind |-> "null"]
Undefined == [kind |-> "undefined"]

\* JavaScript truthiness of the modelled values: null and undefined are
\* falsy, File objects and plain objects are truthy.
Truthy(v) == v # Null /\ v # Undefined

\* A string, kept as the sequence of the fragments it is concatenated from.
Str(parts) == [kind |-> "string", parts |-> parts]

\* s contains the text t
Contains(s, t) == s.kind = "string" /\ \E i \in DOMAIN s.parts : s.parts[i] = t

HasField(v, f) == f \in DOMAIN v

----------------------------------------------------------------------------
(* Files *)

PdfType == "application/pdf"

MaxFileSize == 5 * 1024 * 1024

FileTypes == {PdfType, "image/png"}

FileSizes == {1024, 5242880, 5242881}

File(t, s) == [kind |-> "file", type |-> t, size |-> s]

\* What an input's change event or a drop event may carry: no file at all
\* (files[0] is undefined) or one file.
Candidates == {Undefined} \cup {File(t, s) : t \in FileTypes, s \in FileSizes}

FileTypeTags == {"cv", "jd"}

UploadErrorMessage == Str(<<"Please upload a PDF file under 5MB">>)

\* Faulty variant of UploadAccepts: the size limit is exclusive
UploadAccepts_ExclusiveLimit(file) ==
    Truthy(file) /\ file.type = PdfType /\ file.size < MaxFileSize

\* The condition of the if statement in handleFileUpload
UploadAccepts(file) ==
    Truthy(file) /\ file.type = PdfType /\ file.size <= MaxFileSize

\* Faulty variant of DropAccepts: the media type is not looked at
DropAccepts_AnyType(file) ==
    Truthy(file) /\ file.size <= MaxFileSize

\* The condition of the if statement in handleDrop
DropAccepts(file) ==
    Truthy(file) /\ file.type = PdfType /\ file.size <= MaxFileSize

\* Faulty variant of UploadResult: a rejected candidate empties its slot
UploadResult_ClearsOnReject(type, file, cv, jd) ==
    IF UploadAccepts(file)
    THEN [cvFile |-> IF type = "cv" THEN file ELSE cv,
          jobFile |-> IF type = "cv" THEN jd ELSE file,
          error |-> Null]
    ELSE [cvFile |-> IF type = "cv" THEN Null ELSE cv,
          jobFile |-> IF type = "cv" THEN jd ELSE Null,
          error |-> UploadErrorMessage]

\* The state handleFileUpload leaves: the two slots and the error

UploadResult(type, file, cv, jd) ==
    IF UploadAccepts(file)
    THEN [cvFile |-> IF type = "cv" THEN file ELSE cv,
          jobFile |-> IF type = "cv" THEN jd ELSE file,
          error |-> Null]
    ELSE [cvFile |-> cv, jobFile |-> jd, error |-> UploadErrorMessage]

\* The state handleDrop leaves: the two slots and the error
DropResult(type, file, cv, jd) ==
    IF DropAccepts(file)
    THEN [cvFile |-> IF type = "cv" THEN file ELSE cv,
          jobFile |-> IF type = "cv" THEN jd ELSE file,
          error |-> Null]
    ELSE [cvFile |-> cv, jobFile |-> jd, error |-> UploadErrorMessage]

\* Faulty variant of handleFileUpload: an accepted file discards the stored
\* report
handleFileUpload_ResetsReport(type, file) ==
    LET r == UploadResult(type, file, cvFile, jobFile) IN
    /\ cvFile' = r.cvFile
    /\ jobFile' = r.jobFile
    /\ error' = r.error
    /\ evaluationReport' =
            IF UploadAccepts(file) THEN Null ELSE evaluationReport
    /\ last' = "handleFileUpload"
    /\ UNCHANGED <<isEvaluating, evaluateCalls, downloadCalls, downloads>>

handleFileUpload(type, file) ==
    LET r == UploadResult(type, file, cvFile, jobFile) IN
    /\ cvFile' = r.cvFile
    /\ jobFile' = r.jobFile
    /\ error' = r.error
    /\ last' = "handleFileUpload"
    /\ UNCHANGED <<evaluationReport, isEvaluating, evaluateCalls,
                   downloadCalls, downloads>>

handleDrop(type, file) ==
    LET r == DropResult(type, file, cvFile, jobFile) IN
    /\ cvFile' = r.cvFile
    /\ jobFile' = r.jobFile
    /\ error' = r.error
    /\ last' = "handleDrop"
    /\ UNCHANGED <<evaluationReport, isEvaluating, evaluateCalls,
                   downloadCalls, downloads>>

----------------------------------------------------------------------------
(* Response bodies of the evaluation endpoint *)

Section(title, status, description) ==
    [title |-> title, status |-> status, description |-> description]

Report87 ==
    [kind |-> "object", matchScore |-> 87,
     sections |-> <<Section("Skills", "success", "Strong match"),
                    Section("Missing Keywords", "warning", <<"teamwork", "SQL">>)>>]

Report40 ==
    [kind |-> "object", matchScore |-> 40,
     sections |-> <<Section("Missing Keywords", "error", <<"SQL">>),
                    Section("Skills", "warning", "Weak match")>>]

ErrorBody == [kind |-> "object", error |-> "parse failure"]

\* What response.json() may resolve to
JsonBodies == {Report87, Report40, ErrorBody, Null}

\* JSON.stringify(value): the text of the value, not the value
Stringify(v) == [kind |-> "json", text |-> v]

----------------------------------------------------------------------------
(* evaluateCV *)

PreconditionErrorMessage == Str(<<"Please upload both CV and Job Description">>)

EvaluateErrorMessage == Str(<<"Failed to evaluate CV. Please try again.">>)

\* The sequence s without its i-th element
Remove(s, i) == SubSeq(s, 1, i - 1) \o SubSeq(s, i + 1, Len(s))

\* Faulty variant of MissingFile: only both slots empty counts as missing
MissingFile_BothEmpty == ~Truthy(cvFile) /\ ~Truthy(jobFile)

\* The condition of the first if statement of evaluateCV
MissingFile == ~Truthy(cvFile) \/ ~Truthy(jobFile)

\* Faulty variant of evaluateCV: the two parts of the form carry each other's
\* file
evaluateCV_PartsSwapped ==
    IF MissingFile
    THEN /\ error' = PreconditionErrorMessage
         /\ last' = "evaluateCV"
         /\ UNCHANGED <<cvFile, jobFile, evaluationReport, isEvaluating,
                        evaluateCalls, downloadCalls, downloads>>
    ELSE /\ Len(evaluateCalls) < MaxEvaluateCalls
         /\ isEvaluating' = TRUE
         /\ error' = Null
         /\ evaluateCalls' = Append(evaluateCalls,
                [pc |-> "fetch", cv |-> jobFile, jobDescription |-> cvFile])
         /\ last' = "evaluateCV"
         /\ UNCHANGED <<cvFile, jobFile, evaluationReport, downloadCalls,
                        downloads>>

\* evaluateCV up to its first await (the fetch is issued)

evaluateCV ==
    IF MissingFile
    THEN /\ error' = PreconditionErrorMessage
         /\ last' = "evaluateCV"
         /\ UNCHANGED <<cvFile, jobFile, evaluationReport, isEvaluating,
                        evaluateCalls, downloadCalls, downloads>>
    ELSE /\ Len(evaluateCalls) < MaxEvaluateCalls
         /\ isEvaluating' = TRUE
         /\ error' = Null
         /\ evaluateCalls' = Append(evaluateCalls,
                [pc |-> "fetch", cv |-> cvFile, jobDescription |-> jobFile])
         /\ last' = "evaluateCV"
         /\ UNCHANGED <<cvFile, jobFile, evaluationReport, downloadCalls,
                        downloads>>

\* Faulty variant of EvaluateCatchFinally: no finally block, the flag is
\* cleared on the success path only
EvaluateCatchFinally_NoFinally(i, op) ==
    /\ error' = EvaluateErrorMessage
    /\ evaluateCalls' = Remove(evaluateCalls, i)
    /\ last' = op
    /\ UNCHANGED <<cvFile, jobFile, evaluationReport, isEvaluating,
                   downloadCalls, downloads>>

\* catch (error) { console.error; setError } finally { setIsEvaluating(false) }
\* of the call at position i, which ends that call
EvaluateCatchFinally(i, op) ==
    /\ error' = EvaluateErrorMessage
    /\ isEvaluating' = FALSE
    /\ evaluateCalls' = Remove(evaluateCalls, i)
    /\ last' = op
    /\ UNCHANGED <<cvFile, jobFile, evaluationReport, downloadCalls, downloads>>

\* Faulty variant of EvaluateFetchResolves: the flag is cleared as soon as the
\* response arrives, before its body is read
EvaluateFetchResolves_ClearsFlag(i, ok) ==
    /\ i \in DOMAIN evaluateCalls
    /\ evaluateCalls[i].pc = "fetch"
    /\ evaluateCalls' = [evaluateCalls EXCEPT ![i] =
            [pc |-> "json", cv |-> @.cv, jobDescription |-> @.jobDescription,
             ok |-> ok]]
    /\ isEvaluating' = FALSE
    /\ last' = "evaluateCV:response"
    /\ UNCHANGED <<cvFile, jobFile, evaluationReport, error,
                   downloadCalls, downloads>>

\* await fetch(...) resolves with a response whose ok flag is `ok`; the
\* call goes on to await response.json()
EvaluateFetchResolves(i, ok) ==
    /\ i \in DOMAIN evaluateCalls
    /\ evaluateCalls[i].pc = "fetch"
    /\ evaluateCalls' = [evaluateCalls EXCEPT ![i] =
            [pc |-> "json", cv |-> @.cv, jobDescription |-> @.jobDescription,
             ok |-> ok]]
    /\ last' = "evaluateCV:response"
    /\ UNCHANGED <<cvFile, jobFile, evaluationReport, isEvaluating, error,
                   downloadCalls, downloads>>

\* await fetch(...) rejects: a network failure
EvaluateFetchRejects(i) ==
    /\ i \in DOMAIN evaluateCalls
    /\ evaluateCalls[i].pc = "fetch"
    /\ EvaluateCatchFinally(i, "evaluateCV:fetch-rejected")

\* await response.json() rejects: the body is not JSON
EvaluateJsonRejects(i) ==
    /\ i \in DOMAIN evaluateCalls
    /\ evaluateCalls[i].pc = "json"
    /\ EvaluateCatchFinally(i, "evaluateCV:json-rejected")

\* Faulty variant of EvaluateJsonResolves: a report already stored is kept
EvaluateJsonResolves_KeepFirst(i, result) ==
    /\ i \in DOMAIN evaluateCalls
    /\ evaluateCalls[i].pc = "json"
    /\ IF ~evaluateCalls[i].ok
       THEN /\ error' = EvaluateErrorMessage
            /\ UNCHANGED evaluationReport
       ELSE /\ evaluationReport' =
                    IF Truthy(evaluationReport) THEN evaluationReport ELSE result
            /\ UNCHANGED error
    /\ last' = "evaluateCV:json"
    /\ isEvaluating' = FALSE
    /\ evaluateCalls' = Remove(evaluateCalls, i)
    /\ UNCHANGED <<cvFile, jobFile, downloadCalls, downloads>>

\* Faulty variant of EvaluateJsonResolves: the body of a non-success response
\* is stored as the report
EvaluateJsonResolves_StoresErrorBody(i, result) ==
    /\ i \in DOMAIN evaluateCalls
    /\ evaluateCalls[i].pc = "json"
    /\ IF ~evaluateCalls[i].ok
       THEN /\ error' = EvaluateErrorMessage
            /\ evaluationReport' = result
       ELSE /\ evaluationReport' = result
            /\ UNCHANGED error
    /\ last' = "evaluateCV:json"
    /\ isEvaluating' = FALSE
    /\ evaluateCalls' = Remove(evaluateCalls, i)
    /\ UNCHANGED <<cvFile, jobFile, downloadCalls, downloads>>

\* await response.json() resolves with `result`: the rest of the try block,
\* then catch and finally
EvaluateJsonResolves(i, result) ==
    /\ i \in DOMAIN evaluateCalls
    /\ evaluateCalls[i].pc = "json"
    /\ IF ~evaluateCalls[i].ok
       THEN /\ error' = EvaluateErrorMessage
            /\ UNCHANGED evaluationReport
       ELSE /\ evaluationReport' = result
            /\ UNCHANGED error
    /\ last' = "evaluateCV:json"
    /\ isEvaluating' = FALSE
    /\ evaluateCalls' = Remove(evaluateCalls, i)
    /\ UNCHANGED <<cvFile, jobFile, downloadCalls, downloads>>

----------------------------------------------------------------------------
(* downloadReport *)

DownloadErrorMessage == Str(<<"Failed to download report">>)

DownloadFileName == "cv-evaluation-report.pdf"

\* downloadReport up to its first await (the fetch is issued)
downloadReport ==
    /\ Len(downloads) + Len(downloadCalls) < MaxDownloads
    /\ downloadCalls' = Append(downloadCalls,
            [pc |-> "fetch", body |-> Stringify(evaluationReport)])
    /\ last' = "downloadReport"
    /\ UNCHANGED <<cvFile, jobFile, evaluationReport, isEvaluating, error,
                   evaluateCalls, downloads>>


\* Faulty variant of DownloadCatch: a failed export also drops the report
DownloadCatch_ClearsReport(i, op) ==
    /\ error' = DownloadErrorMessage
    /\ evaluationReport' = Null
    /\ downloadCalls' = Remove(downloadCalls, i)
    /\ last' = op
    /\ UNCHANGED <<cvFile, jobFile, isEvaluating, evaluateCalls, downloads>>

\* catch (error) { console.error; setError('Failed to download report') }
DownloadCatch(i, op) ==
    /\ error' = DownloadErrorMessage
    /\ downloadCalls' = Remove(downloadCalls, i)
    /\ last' = op
    /\ UNCHANGED <<cvFile, jobFile, evaluationReport, isEvaluating,
                   evaluateCalls, downloads>>

\* await fetch(...) resolves: a response that is not ok throws, an ok one
\* goes on to await response.blob()
DownloadFetchResolves(i, ok) ==
    /\ i \in DOMAIN downloadCalls
    /\ downloadCalls[i].pc = "fetch"
    /\ IF ~ok
       THEN DownloadCatch(i, "downloadReport:response")
       ELSE /\ downloadCalls' = [downloadCalls EXCEPT ![i] =
                    [pc |-> "blob", body |-> @.body]]
            /\ last' = "downloadReport:response"
            /\ UNCHANGED <<cvFile, jobFile, evaluationReport, isEvaluating,
                           error, evaluateCalls, downloads>>

\* await fetch(...) rejects: a network failure
DownloadFetchRejects(i) ==
    /\ i \in DOMAIN downloadCalls
    /\ downloadCalls[i].pc = "fetch"
    /\ DownloadCatch(i, "downloadReport:fetch-rejected")

\* await response.blob() rejects: the body cannot be read
DownloadBlobRejects(i) ==
    /\ i \in DOMAIN downloadCalls
    /\ downloadCalls[i].pc = "blob"
    /\ DownloadCatch(i, "downloadReport:blob-rejected")

\* await response.blob() resolves: the anchor is created and clicked
DownloadBlobResolves(i) ==
    /\ i \in DOMAIN downloadCalls
    /\ downloadCalls[i].pc = "blob"
    /\ downloads' = Append(downloads, DownloadFileName)
    /\ downloadCalls' = Remove(downloadCalls, i)
    /\ last' = "downloadReport:blob"
    /\ UNCHANGED <<cvFile, jobFile, evaluationReport, isEvaluating, error,
                   evaluateCalls>>

----------------------------------------------------------------------------
(* The rendered component: which element accepts an event *)

\* disabled={isEvaluating} of the two file inputs
InputDisabled == isEvaluating

\* the pointer-events-none class of the two drop zones
DropZoneLocked == isEvaluating

\* Faulty variant of EvaluateDisabled: the button stays enabled while an
\* evaluation is pending
EvaluateDisabled_NotWhileEvaluating == ~Truthy(cvFile) \/ ~Truthy(jobFile)

\* disabled={!cvFile || !jobFile || isEvaluating} of the Evaluate CV button
EvaluateDisabled == ~Truthy(cvFile) \/ ~Truthy(jobFile) \/ isEvaluating

\* Faulty variant of DownloadRendered: the report card is always rendered
DownloadRendered_Always == TRUE

\* {evaluationReport && (<Card> ... Download PDF ... </Card>)}
DownloadRendered == Truthy(evaluationReport)

InputChange(type, file) == ~InputDisabled /\ handleFileUpload(type, file)

Drop(type, file) == ~DropZoneLocked /\ handleDrop(type, file)

ClickEvaluate == ~EvaluateDisabled /\ evaluateCV


\* Faulty variant of ClickDownload: the Download PDF button is disabled
\* while an evaluation is pending, like the other controls
ClickDownload_NotWhileEvaluating ==
    DownloadRendered /\ ~isEvaluating /\ downloadReport

ClickDownload == DownloadRendered /\ downloadReport

----------------------------------------------------------------------------
(* Specifications *)

Init ==
    /\ cvFile = Null
    /\ jobFile = Null
    /\ evaluationReport = Null
    /\ isEvaluating = FALSE
    /\ error = Null
    /\ evaluateCalls = <<>>
    /\ downloadCalls = <<>>
    /\ downloads = <<>>
    /\ last = "mount"
    /\ mounted = TRUE

\* The continuations of the suspended evaluateCV invocations
EvaluateStep ==
    \E i \in 1..MaxEvaluateCalls :
        \/ \E ok \in BOOLEAN : EvaluateFetchResolves(i, ok)
        \/ EvaluateFetchRejects(i)
        \/ \E result \in JsonBodies : EvaluateJsonResolves(i, result)
        \/ EvaluateJsonRejects(i)

\* The continuations of the suspended downloadReport invocations
DownloadStep ==
    \E i \in 1..MaxDownloads :
        \/ \E ok \in BOOLEAN : DownloadFetchResolves(i, ok)
        \/ DownloadFetchRejects(i)
        \/ DownloadBlobResolves(i)
        \/ DownloadBlobRejects(i)

\* An event of the mounted component: it does not unmount it
Mounted(A) == mounted /\ A /\ UNCHANGED mounted

Next ==
    \/ \E type \in FileTypeTags, file \in Candidates :
            Mounted(InputChange(type, file))
    \/ \E type \in FileTypeTags, file \in Candidates :
            Mounted(Drop(type, file))
    \/ Mounted(ClickEvaluate)
    \/ Mounted(ClickDownload)
    \/ Mounted(EvaluateStep)
    \/ Mounted(DownloadStep)

Spec == Init /\ [][Next]_vars

\* The rendered component, every pending evaluation request being answered
FairSpec == Spec /\ WF_vars(Mounted(EvaluateStep))

NextDirect ==
    \/ \E type \in FileTypeTags, file \in Candidates :
            Mounted(handleFileUpload(type, file))
    \/ \E type \in FileTypeTags, file \in Candidates :
            Mounted(handleDrop(type, file))
    \/ Mounted(evaluateCV)
    \/ Mounted(EvaluateStep)

SpecDirect == Init /\ [][NextDirect]_vars

----------------------------------------------------------------------------
(* Teardown *)

\* React unmounts the component. The component registers no cleanup (no
\* effect, no AbortController): the suspended invocations stay pending.
Unmount ==
    /\ mounted
    /\ mounted' = FALSE
    /\ last' = "unmount"
    /\ UNCHANGED <<cvFile, jobFile, evaluationReport, isEvaluating, error,
                   evaluateCalls, downloadCalls, downloads>>

\* A continuation of the evaluateCV invocation at position i after the
\* unmount. All it does is set state, and React drops the state updates of
\* an unmounted component.
EvaluateContinuesUnmounted(i) ==
    /\ ~mounted
    /\ i \in DOMAIN evaluateCalls
    /\ \/ /\ evaluateCalls[i].pc = "fetch"
          /\ \E ok \in BOOLEAN :
                evaluateCalls' = [evaluateCalls EXCEPT ![i] =
                    [pc |-> "json", cv |-> @.cv,
                     jobDescription |-> @.jobDescription, ok |-> ok]]
          /\ last' = "evaluateCV:response"
       \/ /\ evaluateCalls[i].pc = "fetch"
          /\ evaluateCalls' = Remove(evaluateCalls, i)
          /\ last' = "evaluateCV:fetch-rejected"
       \/ /\ evaluateCalls[i].pc = "json"
          /\ evaluateCalls' = Remove(evaluateCalls, i)
          /\ last' \in {"evaluateCV:json", "evaluateCV:json-rejected"}
    /\ UNCHANGED <<cvFile, jobFile, evaluationReport, isEvaluating, error,
                   downloadCalls, downloads, mounted>>

\* A continuation of the downloadReport invocation at position i after the
\* unmount: setError is dropped, but the anchor is appended to document.body
\* and clicked all the same.
DownloadContinuesUnmounted(i) ==
    /\ ~mounted
    /\ i \in DOMAIN downloadCalls
    /\ \/ /\ downloadCalls[i].pc = "fetch"
          /\ downloadCalls' = [downloadCalls EXCEPT ![i] =
                    [pc |-> "blob", body |-> @.body]]
          /\ last' = "downloadReport:response"
          /\ UNCHANGED downloads
       \/ /\ downloadCalls[i].pc = "fetch"
          /\ downloadCalls' = Remove(downloadCalls, i)
          /\ last' \in {"downloadReport:response",
                        "downloadReport:fetch-rejected"}
          /\ UNCHANGED downloads
       \/ /\ downloadCalls[i].pc = "blob"
          /\ downloadCalls' = Remove(downloadCalls, i)
          /\ last' = "downloadReport:blob-rejected"
          /\ UNCHANGED downloads
       \/ /\ downloadCalls[i].pc = "blob"
          /\ downloads' = Append(downloads, DownloadFileName)
          /\ downloadCalls' = Remove(downloadCalls, i)
          /\ last' = "downloadReport:blob"
    /\ UNCHANGED <<cvFile, jobFile, evaluationReport, isEvaluating, error,
                   evaluateCalls, mounted>>

NextTeardown ==
    \/ Next
    \/ Unmount
    \/ \E i \in 1..MaxEvaluateCalls : EvaluateContinuesUnmounted(i)
    \/ \E i \in 1..MaxDownloads : DownloadContinuesUnmounted(i)

SpecTeardown == Init /\ [][NextTeardown]_vars

----------------------------------------------------------------------------
(* Steps named by the properties below *)

\* A step of either intake path for the candidate `file` and the role `type`
Intake(type, file) == handleFileUpload(type, file) \/ handleDrop(type, file)

\* A continuation that ends the evaluateCV invocation at position i
EvaluateCompletes(i) ==
    \/ EvaluateFetchRejects(i)
    \/ EvaluateJsonRejects(i)
    \/ \E result \in JsonBodies : EvaluateJsonResolves(i, result)

----------------------------------------------------------------------------
(* C1 *)

\* The validation rule as the specification words it
IsValidPdf(file) ==
    file # Undefined /\ file.type = "application/pdf" /\ file.size <= 5242880

\* C1: for every candidate and either role, an intake step puts the candidate
\* into that role's slot (leaving the other slot alone) if and only if it is a
\* file of type application/pdf of at most 5,242,880 bytes; in every other
\* case, no file included, both slots keep their content and the error
\* becomes 'Please upload a PDF file under 5MB'.
C1_IntakeAcceptsExactlyValidPdf ==
    [][\A type \in FileTypeTags, file \in Candidates :
        Intake(type, file) =>
            IF IsValidPdf(file)
            THEN /\ (type = "cv" => cvFile' = file /\ jobFile' = jobFile)
                 /\ (type = "jd" => jobFile' = file /\ cvFile' = cvFile)
            ELSE /\ cvFile' = cvFile
                 /\ jobFile' = jobFile
                 /\ cvFile' # file
                 /\ jobFile' # file
                 /\ error' = Str(<<"Please upload a PDF file under 5MB">>)]_vars

\* A file of exactly 5,242,880 bytes sits in the cv slot, and a later
\* candidate was rejected with the slot kept
C1_Witness ==
    /\ last \in {"handleFileUpload", "handleDrop"}
    /\ cvFile = File("application/pdf", 5242880)
    /\ error = Str(<<"Please upload a PDF file under 5MB">>)

----------------------------------------------------------------------------
(* C2 *)

\* C2: at most one evaluation request is in flight in every reachable state
\* of the rendered component; evaluate() with both slots populated leaves
\* exactly one request pending, and while a request is pending the Evaluate
\* button is disabled, so a second evaluate() is rejected and sends nothing.
C2_AtMostOneEvaluationInFlight ==
    /\ Len(evaluateCalls) <= 1
    /\ (last = "evaluateCV" => Len(evaluateCalls) = 1)
    /\ (Len(evaluateCalls) = 1 => EvaluateDisabled /\ ~ENABLED ClickEvaluate)

\* A request is pending, its response has arrived and its body has not, and
\* both slots are populated: only the evaluating flag disables the button
C2_Witness ==
    /\ last = "evaluateCV:response"
    /\ Len(evaluateCalls) = 1
    /\ Truthy(cvFile) /\ Truthy(jobFile)
    /\ ~ENABLED ClickEvaluate

----------------------------------------------------------------------------
(* C3 *)

\* C3: evaluateCV run while the cv slot or the job description slot is empty
\* issues no request, sets the error to 'Please upload both CV and Job
\* Description' and leaves the evaluating flag false and the slots and the
\* report as they were.
C3_EvaluateWithMissingFileSendsNothing ==
    [][(last' = "evaluateCV" /\ (cvFile = Null \/ jobFile = Null)) =>
            /\ evaluateCalls' = evaluateCalls
            /\ evaluateCalls = <<>>
            /\ error' = Str(<<"Please upload both CV and Job Description">>)
            /\ isEvaluating = FALSE
            /\ isEvaluating' = FALSE
            /\ cvFile' = cvFile
            /\ jobFile' = jobFile
            /\ evaluationReport' = evaluationReport]_vars

\* evaluateCV has run with the cv slot populated and the job description
\* slot empty
C3_Witness ==
    /\ last = "evaluateCV"
    /\ Truthy(cvFile)
    /\ jobFile = Null
    /\ error = Str(<<"Please upload both CV and Job Description">>)
    /\ evaluateCalls = <<>>

----------------------------------------------------------------------------
(* C4 *)

\* C4: when the response of an evaluation request is not ok and its body
\* carries an error field, the error shown afterwards contains that text.
C4_ServerErrorTextIsSurfaced ==
    [][\A i \in DOMAIN evaluateCalls, result \in JsonBodies :
        (/\ EvaluateJsonResolves(i, result)
         /\ ~evaluateCalls[i].ok
         /\ HasField(result, "error"))
            => Contains(error', result.error)]_vars

----------------------------------------------------------------------------
(* C5 *)

\* C5: in no reachable state is the evaluation failure message shown while
\* a report (a body with a match score) of an earlier cycle is stored.
C5_NoReportBesideEvaluationFailure ==
    ~(/\ error = EvaluateErrorMessage
      /\ Truthy(evaluationReport)
      /\ HasField(evaluationReport, "matchScore"))

----------------------------------------------------------------------------
(* C6 *)

\* C6: when response.json() of an ok response resolves, the stored report
\* becomes exactly the parsed body, whatever report was stored before, and
\* the evaluating flag is cleared.
C6_SuccessStoresTheBody ==
    [][\A i \in DOMAIN evaluateCalls, result \in JsonBodies :
        (EvaluateJsonResolves(i, result) /\ evaluateCalls[i].ok)
            => /\ evaluationReport' = result
               /\ isEvaluating' = FALSE]_vars

\* The body with matchScore 87 and two sections is the stored report, its
\* sections in the order of the response
C6_Witness ==
    /\ last = "evaluateCV:json"
    /\ ~isEvaluating
    /\ Truthy(evaluationReport)
    /\ HasField(evaluationReport, "matchScore")
    /\ evaluationReport.matchScore = 87
    /\ Len(evaluationReport.sections) = 2
    /\ evaluationReport.sections[1].title = "Skills"
    /\ evaluationReport.sections[2].title = "Missing Keywords"

----------------------------------------------------------------------------
(* C7 *)

\* C7: in the rendered component downloadReport cannot be invoked while no
\* report is stored: the Download PDF button is not there to click, and every
\* export request in flight carries a report that was stored.
C7_NoExportWithoutReport ==
    /\ (~Truthy(evaluationReport) => ~ENABLED ClickDownload)
    /\ (last = "downloadReport" => Truthy(evaluationReport))
    /\ \A i \in DOMAIN downloadCalls :
            downloadCalls[i].body # Stringify(Null)

\* A report was exported and downloaded, a later evaluation stored a null
\* body, and the export is no longer available
C7_Witness ==
    /\ evaluationReport = Null
    /\ Len(downloads) = 1
    /\ downloadCalls = <<>>
    /\ ~ENABLED ClickDownload

----------------------------------------------------------------------------
(* C8 *)

----------------------------------------------------------------------------
(* C9 *)

\* C9: every continuation that ends an evaluation (ok response, response
\* that is not ok, network failure, unparseable body) leaves the evaluating
\* flag false and the Evaluate button enabled; and, every pending request
\* being answered, an evaluation in progress always leads to one that is not.
C9_EvaluationReturnsToIdle ==
    /\ [][\A i \in DOMAIN evaluateCalls :
            EvaluateCompletes(i) => ~isEvaluating' /\ ~EvaluateDisabled']_vars
    /\ (isEvaluating ~> ~isEvaluating)

\* An evaluation has ended on an unparseable body and evaluate() can be
\* triggered again
C9_Witness ==
    /\ last = "evaluateCV:json-rejected"
    /\ ~isEvaluating
    /\ evaluateCalls = <<>>
    /\ ENABLED ClickEvaluate

----------------------------------------------------------------------------
(* C10 *)

\* C10: from the same state, with the same role and the same candidate, the
\* two intake paths leave the same slots and the same error: every drop step
\* ends where handleFileUpload would have, and every selection step ends
\* where handleDrop would have.
C10_DropAndSelectionAgree ==
    [][\A type \in FileTypeTags, file \in Candidates :
        /\ handleDrop(type, file) =>
                [cvFile |-> cvFile', jobFile |-> jobFile', error |-> error']
                    = UploadResult(type, file, cvFile, jobFile)
        /\ handleFileUpload(type, file) =>
                [cvFile |-> cvFile', jobFile |-> jobFile', error |-> error']
                    = DropResult(type, file, cvFile, jobFile)]_vars

\* A drop was rejected after a valid file had been put into each slot
C10_Witness ==
    /\ last = "handleDrop"
    /\ Truthy(cvFile)
    /\ Truthy(jobFile)
    /\ error = UploadErrorMessage

----------------------------------------------------------------------------
(* C11 *)

\* A continuation that ends the downloadReport invocation at position i in
\* its catch block: a response that is not ok, a rejected fetch, a body that
\* cannot be read
DownloadFails(i) ==
    \/ DownloadFetchResolves(i, FALSE)
    \/ DownloadFetchRejects(i)
    \/ DownloadBlobRejects(i)

\* C11: a failed export sets the error to 'Failed to download report',
\* triggers no download and leaves both slots, the evaluating flag, the
\* stored report and the pending evaluation requests as they were.
C11_FailedExportOnlySetsTheError ==
    [][\A i \in DOMAIN downloadCalls :
        DownloadFails(i) =>
            /\ error' = Str(<<"Failed to download report">>)
            /\ downloads' = downloads
            /\ cvFile' = cvFile
            /\ jobFile' = jobFile
            /\ isEvaluating' = isEvaluating
            /\ evaluationReport' = evaluationReport
            /\ evaluateCalls' = evaluateCalls]_vars

\* An export was answered with a status that is not ok while an evaluation
\* was pending: the error is set, the report is still stored, nothing was
\* downloaded
C11_Witness ==
    /\ last = "downloadReport:response"
    /\ downloadCalls = <<>>
    /\ error = Str(<<"Failed to download report">>)
    /\ Truthy(evaluationReport)
    /\ isEvaluating
    /\ downloads = <<>>

----------------------------------------------------------------------------
(* C12 *)

\* The names of the steps of downloadReport
DownloadOps ==
    {"downloadReport", "downloadReport:response", "downloadReport:blob",
     "downloadReport:fetch-rejected", "downloadReport:blob-rejected"}

----------------------------------------------------------------------------
(* C13 *)

\* C13: once the component is torn down, no step changes the report, the
\* error or the evaluating flag, and no download is triggered.
C13_NothingHappensAfterTeardown ==
    [][~mounted =>
            /\ evaluationReport' = evaluationReport
            /\ error' = error
            /\ isEvaluating' = isEvaluating
            /\ downloads' = downloads]_vars

----------------------------------------------------------------------------
(* C14 *)

\* The evaluation request at position i fails: the transport fails, the body
\* cannot be read, or the response has a non-success status
EvaluateFails(i) ==
    \/ EvaluateFetchRejects(i)
    \/ EvaluateJsonRejects(i)
    \/ \E result \in JsonBodies :
            EvaluateJsonResolves(i, result) /\ ~evaluateCalls[i].ok

\* C14: every failure of an evaluation request, a non-success status and a
\* transport failure alike, clears the evaluating flag, sets the error to
\* exactly 'Failed to evaluate CV. Please try again.' and leaves the stored
\* report as it was.
C14_EvaluationFailsTheSameWay ==
    [][\A i \in DOMAIN evaluateCalls :
        EvaluateFails(i) =>
            /\ isEvaluating' = FALSE
            /\ error' = Str(<<"Failed to evaluate CV. Please try again.">>)
            /\ evaluationReport' = evaluationReport]_vars

C14_Witness ==
    /\ last = "evaluateCV:json"
    /\ error = Str(<<"Failed to evaluate CV. Please try again.">>)
    /\ ~isEvaluating
    /\ evaluateCalls = <<>>
    /\ evaluationReport = Null

----------------------------------------------------------------------------
(* C15 *)

\* A value of the shape the report rendering reads: a match score and a
\* list of sections
IsReport(v) == HasField(v, "matchScore") /\ HasField(v, "sections")

\* C15: a body that is not a report is never stored as the evaluation
\* report.
C15_OnlyReportsAreStored ==
    evaluationReport # Null => IsReport(evaluationReport)

----------------------------------------------------------------------------
(* C16 *)

\* C16: a populated slot holds a file that passed validation; no step makes
\* a populated slot empty; a candidate that fails validation, given to either
\* intake path, leaves both slots as they were.
C16_SlotsHoldValidatedFiles ==
    /\ [](/\ cvFile # Null => IsValidPdf(cvFile)
          /\ jobFile # Null => IsValidPdf(jobFile))
    /\ [][/\ cvFile # Null => cvFile' # Null
          /\ jobFile # Null => jobFile' # Null]_vars
    /\ [][\A type \in FileTypeTags, file \in Candidates :
            (~IsValidPdf(file) /\ (InputChange(type, file) \/ Drop(type, file)))
                => cvFile' = cvFile /\ jobFile' = jobFile]_vars

\* With a different file in each slot, a selected candidate was rejected and
\* both files are still there
C16_Witness ==
    /\ last = "handleFileUpload"
    /\ error = Str(<<"Please upload a PDF file under 5MB">>)
    /\ cvFile = File("application/pdf", 1024)
    /\ jobFile = File("application/pdf", 5242880)

----------------------------------------------------------------------------
(* C17 *)

\* C17: evaluate() invoked with both slots populated sets the evaluating
\* flag, clears the error and issues exactly one request, whose 'cv' part is
\* the cv slot and whose 'jobDescription' part is the job slot as they are at
\* the call; the stored report and both slots stay as they were.
C17_EvaluateSendsTheSlots ==
    [][(evaluateCV /\ cvFile # Null /\ jobFile # Null) =>
            /\ isEvaluating' = TRUE
            /\ error' = Null
            /\ Len(evaluateCalls') = Len(evaluateCalls) + 1
            /\ SubSeq(evaluateCalls', 1, Len(evaluateCalls)) = evaluateCalls
            /\ evaluateCalls'[Len(evaluateCalls')].pc = "fetch"
            /\ evaluateCalls'[Len(evaluateCalls')].cv = cvFile
            /\ evaluateCalls'[Len(evaluateCalls')].jobDescription = jobFile
            /\ evaluationReport' = evaluationReport
            /\ cvFile' = cvFile
            /\ jobFile' = jobFile]_vars

\* A second evaluation of two different files was started with a report
\* stored: the request carries the two files, each under its own part
C17_Witness ==
    /\ last = "evaluateCV"
    /\ isEvaluating
    /\ error = Null
    /\ evaluationReport = Report87
    /\ cvFile = File("application/pdf", 5242880)
    /\ jobFile = File("application/pdf", 1024)
    /\ evaluateCalls = <<[pc |-> "fetch", cv |-> cvFile,
                          jobDescription |-> jobFile]>>

----------------------------------------------------------------------------
(* C18 *)

\* C18: in every reachable state of the rendered component the evaluating
\* flag is true exactly when one evaluation request is in flight: never true
\* with no request pending, never false while a request is pending.
C18_FlagTracksTheRequest ==
    /\ isEvaluating => Len(evaluateCalls) = 1
    /\ Len(evaluateCalls) > 0 => isEvaluating

\* The flag is up with the response arrived and its body still being read,
\* and it was down, with nothing pending, before that evaluation: a report
\* of an earlier evaluation is stored
C18_Witness ==
    /\ last = "evaluateCV:response"
    /\ isEvaluating
    /\ Len(evaluateCalls) = 1
    /\ evaluateCalls[1].pc = "json"
    /\ evaluationReport = Report40

----------------------------------------------------------------------------
(* C19 *)

\* C19: the stored report changes only in the step that handles a
\* success-status evaluation response; intake, evaluate() whether it is
\* rejected or starts a request, a failed evaluation and every step of an
\* export leave it as it was.
C19_OnlySuccessChangesTheReport ==
    /\ [][evaluationReport' # evaluationReport =>
            \E i \in DOMAIN evaluateCalls, result \in JsonBodies :
                /\ evaluateCalls[i].pc = "json"
                /\ evaluateCalls[i].ok
                /\ EvaluateJsonResolves(i, result)]_vars
    /\ [](~ENABLED (Mounted(evaluateCV)
                        /\ evaluationReport' # evaluationReport))

\* A report was stored, exported, and a later candidate was rejected: the
\* report is still the one stored
C19_Witness ==
    /\ last = "handleDrop"
    /\ error = Str(<<"Please upload a PDF file under 5MB">>)
    /\ evaluationReport = Report40
    /\ downloads = <<"cv-evaluation-report.pdf">>
    /\ ~isEvaluating

=============================================================================
